---- MODULE Spec2Model ----
(***************************************************************************)
(* Conversation store (ChatManager) and completion client (LLMService) of  *)
(* the chatbot: one state machine per component, sharing one set of        *)
(* variables.                                                              *)
(*                                                                         *)
(*   SpecLLM    LLMService.send_message: validation, the retry loop, the   *)
(*              except clauses in the order the source lists them.         *)
(*   SpecStore  ChatManager used by one caller at a time; every method is  *)
(*              one atomic step.                                          *)
(*   SpecDisk   SpecStore plus a file of the storage directory that no     *)
(*              save wrote.                                                *)
(*   SpecConc   add_message split at its file-system calls and interleaved *)
(*              between two callers.                                       *)
(*   SpecIO     SpecStore plus saves whose file-system calls fail.         *)
(*   SpecLLMFair  SpecLLM with every started remote call ending.          *)
(*   SpecApp    app.main: one session's exchanges over the store and the  *)
(*              client, next to another session's deletes.                *)
(***************************************************************************)
EXTENDS Integers, Sequences, FiniteSets, TLC

VARIABLES
    \* ---- LLMService.send_message ----
    pc,         \* "idle" | "attempting" | "returned"
    args,       \* the arguments of the call in progress
    attempt,    \* loop variable of `for attempt in range(Config.MAX_RETRIES)`
    outcomes,   \* what each remote call of this call did, in order
    slept,      \* the time.sleep() arguments of this call, in order
    elapsed,    \* time.time() - start_time
    result,     \* the value returned
    \* ---- ChatManager ----
    files,      \* storage_dir: file id -> file content
    clock,      \* datetime.now(), in ticks
    ret,        \* the last ChatManager call: what it was and what it returned
    ppc,        \* per caller: position inside create/add_message
    local,      \* per caller: conversation_id and conversation_data being saved
    \* ---- app.main, one browser session ----
    session     \* st.session_state and the position of the script run

llmVars   == <<pc, args, attempt, outcomes, slept, elapsed, result>>
storeVars == <<files, clock, ret, ppc, local>>
appVars   == <<session>>
vars      == <<pc, args, attempt, outcomes, slept, elapsed, result,
               files, clock, ret, ppc, local, session>>

None == "<None>"

(***************************************************************************)
(* Config                                                                  *)
(***************************************************************************)
MAX_MESSAGE_LENGTH == 4000
MAX_RETRIES == 3

(***************************************************************************)
(* Bounds                                                                  *)
(***************************************************************************)
MaxCallTime == 1      \* longest remote call, in seconds
MaxClock == 4         \* last tick of the clock
TicksPerSec == 3      \* clock ticks in one second
MaxMsgs == 2          \* messages in one conversation

(***************************************************************************)
(* LLMService                                                              *)
(***************************************************************************)

\* A message is known by its length and by how many of its characters are
\* not whitespace: that is all send_message reads of it.
Messages ==
    { [len |-> n, nonblank |-> k] :
        n \in {0, 1, 2, MAX_MESSAGE_LENGTH, MAX_MESSAGE_LENGTH + 1},
        k \in {0, 1, 2} } \cap
    { m \in [len : Nat, nonblank : Nat] : m.nonblank <= m.len }

KnownModels == {"gpt-3.5-turbo", "gpt-4", "gpt-4-turbo"}
ModelArgs == {"gpt-3.5-turbo", "gpt-4", "no-such-model"}

\* `if model not in self.models: model = "gpt-3.5-turbo"`
ResolveModel(model) == IF model \in KnownModels THEN model ELSE "gpt-3.5-turbo"

\* What one call of client.chat.completions.create can do: return a reply
\* (its choices, choices[0].message and the message's content), or raise.
Replies ==
    { [kind |-> "reply", choices |-> c, message |-> m, content |-> t,
       exc |-> None] :
        c \in {0, 1}, m \in BOOLEAN, t \in {None, "", "text"} } \cap
    { r \in [kind : {"reply"}, choices : {0, 1}, message : BOOLEAN,
             content : {None, "", "text"}, exc : {None}] :
        /\ (r.choices = 0 => ~r.message)
        /\ (~r.message => r.content = None) }

Raised == {"APIConnectionError", "RateLimitError", "AuthenticationError",
           "RuntimeError"}

Raises ==
    { [kind |-> "raise", choices |-> 0, message |-> FALSE, content |-> None,
       exc |-> e] : e \in Raised }

RemoteOutcomes == Replies \cup Raises

\* The classes an exception object is an instance of (openai >= 1.0, the
\* version that has openai.OpenAI: RateLimitError and AuthenticationError
\* derive from APIStatusError, which derives from APIError).
Mro(e) ==
    CASE e = "AuthenticationError" ->
            {"AuthenticationError", "APIStatusError", "APIError", "Exception"}
      [] e = "RateLimitError" ->
            {"RateLimitError", "APIStatusError", "APIError", "Exception"}
      [] e = "APIConnectionError" ->
            {"APIConnectionError", "APIError", "Exception"}
      [] OTHER -> {e, "Exception"}

\* The except clauses of the try statement, in source order.
ExceptClauses ==
    <<"APIError", "RateLimitError", "AuthenticationError", "Exception">>

\* Python runs the first except clause whose class the exception is an
\* instance of.
FirstMatch(e, clauses) ==
    LET hits == { i \in 1..Len(clauses) : clauses[i] \in Mro(e) }
    IN  clauses[CHOOSE i \in hits : \A j \in hits : i <= j]

Handler(e) == FirstMatch(e, ExceptClauses)

Failure(err, t) ==
    [success |-> FALSE, response |-> None, error |-> err, response_time |-> t]

Success(text, t) ==
    [success |-> TRUE, response |-> text, error |-> None, response_time |-> t]

\* `return` without a value: the for loop ran out.
NoResult ==
    [success |-> FALSE, response |-> None, error |-> None, response_time |-> 0]

\* The two guards at the top of send_message; None when the message passes.
ValidateBadLength(m) ==
    IF m.len = 0 \/ m.nonblank = 0 THEN "Empty message provided"
    ELSE IF m.len >= MAX_MESSAGE_LENGTH + 2 THEN "Message too long"
    ELSE None

Validate(m) ==
    IF m.len = 0 \/ m.nonblank = 0 THEN "Empty message provided"
    ELSE IF m.len > MAX_MESSAGE_LENGTH THEN "Message too long"
    ELSE None

\* `if response.choices and response.choices[0].message:`
ReplyAccepted(r) == r.choices > 0 /\ r.message

\* `if attempt == Config.MAX_RETRIES - 1:` in the retrying except clauses.
LastAttemptOffByOne(a) == a = MAX_RETRIES
LastAttempt(a) == a = MAX_RETRIES - 1

\* The error text and the sleep of each except clause.
ClauseError(h) ==
    CASE h = "APIError" -> "API Error"
      [] h = "RateLimitError" -> "Rate limit exceeded. Please try again later."
      [] h = "AuthenticationError" ->
            "Invalid API key. Please check your configuration."
      [] OTHER -> "Unexpected error"

ClauseSleep(h) == IF h = "RateLimitError" THEN 2 ELSE 1

\* send_message up to the first remote call.
SendMessage(m, model) ==
    /\ pc = "idle"
    /\ args' = [message |-> m, model |-> ResolveModel(model)]
    /\ attempt' = 0
    /\ outcomes' = <<>>
    /\ slept' = <<>>
    /\ elapsed' = 0
    /\ IF Validate(m) # None
       THEN /\ pc' = "returned"
            /\ result' = Failure(Validate(m), 0)
       ELSE /\ pc' = "attempting"
            /\ result' = NoResult
    /\ UNCHANGED <<storeVars, appVars>>

\* One iteration of the retry loop: the remote call, which takes d seconds
\* and does o, and the branch or except clause that handles it.
Attempt(o, d) ==
    /\ pc = "attempting"
    /\ outcomes' = Append(outcomes, o)
    /\ UNCHANGED args
    /\ IF o.kind = "reply"
       THEN /\ elapsed' = elapsed + d
            /\ slept' = slept
            /\ attempt' = attempt
            /\ pc' = "returned"
            /\ result' = IF ReplyAccepted(o)
                         THEN Success(o.content, elapsed + d)
                         ELSE Failure("Empty response from API", elapsed + d)
       ELSE LET h == Handler(o.exc) IN
            IF h = "AuthenticationError" \/ LastAttempt(attempt)
            THEN /\ elapsed' = elapsed + d
                 /\ slept' = slept
                 /\ attempt' = attempt
                 /\ pc' = "returned"
                 /\ result' = Failure(ClauseError(h), elapsed + d)
            ELSE /\ elapsed' = elapsed + d + ClauseSleep(h)
                 /\ slept' = Append(slept, ClauseSleep(h))
                 /\ attempt' = attempt + 1
                 /\ IF attempt + 1 < MAX_RETRIES
                    THEN pc' = "attempting" /\ result' = result
                    ELSE pc' = "returned" /\ result' = NoResult
    /\ UNCHANGED <<storeVars, appVars>>

\* The caller takes the result; nothing of the call is kept.
Return ==
    /\ pc = "returned"
    /\ pc' = "idle"
    /\ args' = [message |-> [len |-> 0, nonblank |-> 0], model |-> None]
    /\ attempt' = 0
    /\ outcomes' = <<>>
    /\ slept' = <<>>
    /\ elapsed' = 0
    /\ result' = NoResult
    /\ UNCHANGED <<storeVars, appVars>>

LLMInit ==
    /\ pc = "idle"
    /\ args = [message |-> [len |-> 0, nonblank |-> 0], model |-> None]
    /\ attempt = 0
    /\ outcomes = <<>>
    /\ slept = <<>>
    /\ elapsed = 0
    /\ result = NoResult

(***************************************************************************)
(* ChatManager                                                             *)
(***************************************************************************)
Procs == {1, 2}

\* strftime("%Y%m%d_%H%M%S"): the second a tick lies in.
Second(t) == t \div TicksPerSec

\* The ids create_conversation can give out, and the name of a *.json file
\* of the directory that is none of them.
Ids == 0..Second(MaxClock)
StrayId == Second(MaxClock) + 1
FileIds == Ids \cup {StrayId}

Keys == {"id", "title", "created_at", "updated_at", "messages"}

\* The content of <id>.json, and the value json.load gives for it:
\*   absent   no such file
\*   empty    a file of zero bytes
\*   partial  bytes that are not a JSON document
\*   json     a JSON object with the keys in `has`
\*   none     Python's None
Blank(kind) ==
    [kind |-> kind, has |-> {}, id |-> -1, title |-> None, created_at |-> 0,
     updated_at |-> 0, messages |-> <<>>]

Absent == Blank("absent")
Empty == Blank("empty")
Partial == Blank("partial")
PyNone == Blank("none")

Roles == {"user", "assistant"}
Contents == {"hi"}
Titles == {None, "My chat"}
Metadatas == {None}

\* f"Chat {datetime.now().strftime('%B %d at %I:%M %p')}"
DefaultTitle == "Chat"

\* The dict create_conversation builds.
NewConversation(id, title, tCreated, tUpdated) ==
    [kind |-> "json", has |-> Keys, id |-> id,
     title |-> IF title = None THEN DefaultTitle ELSE title,
     created_at |-> tCreated, updated_at |-> tUpdated, messages |-> <<>>]

\* The dict add_message builds.
NewMessage(role, content, metadata, t) ==
    [role |-> role, content |-> content, timestamp |-> t,
     metadata |-> IF metadata = None THEN "{}" ELSE metadata]

\* `conversation["messages"].append(message)`
Appended(conv, msg) ==
    [conv EXCEPT !.messages = Append(@, msg)]

\* `conversation_data["updated_at"] = datetime.now().isoformat()`
StampedNever(data, t) == data

Stamped(data, t) ==
    [data EXCEPT !.updated_at = t, !.has = @ \cup {"updated_at"}]

\* The number of bytes json.dump writes for a dict, up to a constant.
StrLen(str) ==
    CASE str = "user" -> 4
      [] str = "assistant" -> 9
      [] str = "hi" -> 2
      [] str = "My chat" -> 7
      [] str = "Chat" -> 4
      [] OTHER -> 2

RECURSIVE MessagesLen(_)
MessagesLen(ms) ==
    IF ms = <<>> THEN 0
    ELSE 10 + StrLen(ms[1].role) + StrLen(ms[1].content)
            + StrLen(ms[1].metadata) + MessagesLen(Tail(ms))

ByteLen(f) ==
    CASE f.kind = "json" ->
            1 + (IF "title" \in f.has THEN StrLen(f.title) ELSE 0)
              + (IF "messages" \in f.has THEN MessagesLen(f.messages) ELSE 0)
      [] f.kind = "partial" -> 1
      [] OTHER -> 0

\* The file after a handle opened with 'w' writes `data` from offset 0 and is
\* closed, when the file holds `cur` by then: bytes of `cur` beyond the end
\* of `data` stay.
Written(cur, data) ==
    IF ByteLen(cur) > ByteLen(data) THEN Partial ELSE data

\* load_conversation: None for a missing file and for a file json.load
\* rejects, else what json.load returns.
LoadOf(f) == IF f.kind = "json" THEN f ELSE PyNone

\* `if not conversation:` -- None and the empty dict are false.
FalsyNever(c) == FALSE

Falsy(c) == c.kind # "json" \/ c.has = {}

\* What the call that ended with the last step returned, NoRet when that
\* step ended no call (ok: its boolean result; rec: the dict it
\* returned; list: the list it returned; raised: the exception that left it).
Ret(op, id, ok, rec, list, raised) ==
    [op |-> op, id |-> id, ok |-> ok, rec |-> rec, list |-> list,
     raised |-> raised]

NoRet == Ret("none", -1, FALSE, PyNone, <<>>, None)

\* What a caller inside add_message holds: the call it is in,
\* conversation_id and the conversation dict.
NoLocal == [op |-> "none", id |-> -1, data |-> PyNone]

StoreInit ==
    /\ files = [i \in FileIds |-> Absent]
    /\ clock = 0
    /\ ret = NoRet
    /\ ppc = [p \in Procs |-> "idle"]
    /\ local = [p \in Procs |-> NoLocal]

\* ---- get_all_conversations ----

\* The body of the try block: the summary of one parsed file, or "skip" when
\* json.load or a data[...] lookup raises.
Summary(f) ==
    IF f.kind = "json" /\ {"id", "title", "created_at", "updated_at"} \subseteq f.has
    THEN [skip |-> FALSE, id |-> f.id, title |-> f.title,
          created_at |-> f.created_at, updated_at |-> f.updated_at,
          message_count |-> IF "messages" \in f.has THEN Len(f.messages) ELSE 0]
    ELSE [skip |-> TRUE, id |-> -1, title |-> None, created_at |-> 0,
          updated_at |-> 0, message_count |-> 0]

\* The loop over storage_dir.glob("*.json"), in the order glob yields.
RECURSIVE Summaries(_, _)
Summaries(fs, order) ==
    IF order = <<>> THEN <<>>
    ELSE LET s == Summary(fs[order[1]])
         IN  (IF s.skip THEN <<>> ELSE <<s>>) \o Summaries(fs, Tail(order))

\* list.sort(key=updated_at, reverse=True): stable, largest key first.
RECURSIVE InsertAscending(_, _)
InsertAscending(sorted, s) ==
    IF sorted = <<>> THEN <<s>>
    ELSE IF sorted[1].updated_at <= s.updated_at
         THEN <<sorted[1]>> \o InsertAscending(Tail(sorted), s)
         ELSE <<s>> \o sorted

RECURSIVE InsertDescending(_, _)
InsertDescending(sorted, s) ==
    IF sorted = <<>> THEN <<s>>
    ELSE IF sorted[1].updated_at >= s.updated_at
         THEN <<sorted[1]>> \o InsertDescending(Tail(sorted), s)
         ELSE <<s>> \o sorted

RECURSIVE SortByUpdated(_)
SortByUpdated(list) ==
    IF list = <<>> THEN <<>>
    ELSE InsertDescending(SortByUpdated(SubSeq(list, 1, Len(list) - 1)),
                          list[Len(list)])

Present(fs) == { i \in FileIds : fs[i].kind # "absent" }

\* The orders glob can yield the files of the directory in.
GlobOrders(fs) ==
    { o \in UNION { [1..n -> Present(fs)] : n \in {Cardinality(Present(fs))} } :
        \A i, j \in DOMAIN o : i # j => o[i] # o[j] }

\* ---- ChatManager, one call per step ----

\* The times a call can read from datetime.now(): the clock does not run
\* backwards, and each reading is the last one or one tick later.
Later(t) == {t, t + 1}

\* Writing a file takes longer than one tick of datetime.now().
AfterWrite(t) == t + 1

\* create_conversation(title)
Create(title, tCreated, tSaved) ==
    LET id == Second(clock)
        data == Stamped(NewConversation(id, title, tCreated, tCreated), tSaved)
    IN  /\ \A p \in Procs : ppc[p] = "idle"
        /\ tCreated \in Later(clock)
        /\ tSaved \in Later(tCreated)
        /\ AfterWrite(tSaved) <= MaxClock
        /\ files' = [files EXCEPT ![id] = Written(Empty, data)]
        /\ clock' = AfterWrite(tSaved)
        /\ ret' = Ret("create", id, TRUE, data, <<>>, None)
        /\ UNCHANGED <<ppc, local>>
        /\ UNCHANGED <<llmVars, appVars>>

\* add_message(conversation_id, role, content, metadata)
AddMessage(id, role, content, metadata, tMessage, tSaved) ==
    LET conv == LoadOf(files[id])
        data == Stamped(Appended(conv,
                    NewMessage(role, content, metadata, tMessage)), tSaved)
    IN  /\ \A p \in Procs : ppc[p] = "idle"
        /\ IF Falsy(conv)
           THEN /\ tMessage = clock /\ tSaved = clock
                /\ ret' = Ret("add_message", id, FALSE, PyNone, <<>>, None)
                /\ UNCHANGED <<files, clock>>
           ELSE IF "messages" \notin conv.has
           THEN /\ tMessage = clock /\ tSaved = clock
                /\ ret' = Ret("add_message", id, FALSE, PyNone, <<>>, "KeyError")
                /\ UNCHANGED <<files, clock>>
           ELSE /\ Len(conv.messages) < MaxMsgs
                /\ tMessage \in Later(clock)
                /\ tSaved \in Later(tMessage)
                /\ AfterWrite(tSaved) <= MaxClock
                /\ files' = [files EXCEPT ![id] = Written(Empty, data)]
                /\ clock' = AfterWrite(tSaved)
                /\ ret' = Ret("add_message", id, TRUE, data, <<>>, None)
        /\ UNCHANGED <<ppc, local>>
        /\ UNCHANGED <<llmVars, appVars>>

\* load_conversation(conversation_id)
Load(id) ==
    /\ ret' = Ret("load", id, LoadOf(files[id]) # PyNone, LoadOf(files[id]),
                  <<>>, None)
    /\ UNCHANGED <<files, clock, ppc, local>>
    /\ UNCHANGED <<llmVars, appVars>>

\* get_all_conversations(), glob yielding the files in `order`
GetAll(order) ==
    /\ order \in GlobOrders(files)
    /\ ret' = Ret("get_all", -1, TRUE, PyNone,
                  SortByUpdated(Summaries(files, order)), None)
    /\ UNCHANGED <<files, clock, ppc, local>>
    /\ UNCHANGED <<llmVars, appVars>>

\* delete_conversation(conversation_id)
Delete(id) ==
    /\ \A p \in Procs : ppc[p] = "idle"
    /\ IF files[id].kind # "absent"
       THEN /\ files' = [files EXCEPT ![id] = Absent]
            /\ ret' = Ret("delete", id, TRUE, PyNone, <<>>, None)
       ELSE /\ files' = files
            /\ ret' = Ret("delete", id, FALSE, PyNone, <<>>, None)
    /\ UNCHANGED <<clock, ppc, local>>
    /\ UNCHANGED <<llmVars, appVars>>

\* Time passes between calls; the caller has taken what the last call returned.
Tick ==
    /\ clock < MaxClock
    /\ clock' = clock + 1
    /\ ret' = NoRet
    /\ UNCHANGED <<files, ppc, local>>
    /\ UNCHANGED <<llmVars, appVars>>

\* ---- a file of the directory that no save wrote ----

\* What the file can hold: bytes that do not parse, {}, a record without
\* "messages", an object with only "id" and "messages".
JunkOf(id) ==
    { Partial,
      [Blank("json") EXCEPT !.id = id],
      [Blank("json") EXCEPT !.id = id, !.title = "My chat",
            !.has = Keys \ {"messages"}],
      [Blank("json") EXCEPT !.id = id, !.has = {"id", "messages"}] }

PutJunk(f) ==
    /\ \A p \in Procs : ppc[p] = "idle"
    /\ f \in JunkOf(StrayId)
    /\ files' = [files EXCEPT ![StrayId] = f]
    /\ ret' = NoRet
    /\ UNCHANGED <<clock, ppc, local>>
    /\ UNCHANGED <<llmVars, appVars>>

\* ---- add_message, one file-system call per step ----

\* add_message up to its call of save_conversation
AddBegin(p, id, role, content, metadata, tMessage) ==
    LET conv == LoadOf(files[id]) IN
    /\ ppc[p] = "idle"
    /\ IF Falsy(conv)
       THEN /\ tMessage = clock
            /\ ret' = Ret("add_message", id, FALSE, PyNone, <<>>, None)
            /\ UNCHANGED <<clock, ppc, local>>
       ELSE IF "messages" \notin conv.has
       THEN /\ tMessage = clock
            /\ ret' = Ret("add_message", id, FALSE, PyNone, <<>>, "KeyError")
            /\ UNCHANGED <<clock, ppc, local>>
       ELSE /\ Len(conv.messages) < MaxMsgs
            /\ tMessage = clock
            /\ local' = [local EXCEPT ![p] =
                    [op |-> "add_message", id |-> id,
                     data |-> Appended(conv,
                                NewMessage(role, content, metadata, tMessage))]]
            /\ ppc' = [ppc EXCEPT ![p] = "save"]
            /\ clock' = tMessage
            /\ ret' = NoRet
    /\ UNCHANGED files
    /\ UNCHANGED <<llmVars, appVars>>

\* save_conversation: the updated_at assignment and open(file_path, 'w'),
\* which creates the file or cuts it to zero bytes.
SaveOpen(p, tSaved) ==
    /\ ppc[p] = "save"
    /\ tSaved = clock
    /\ local' = [local EXCEPT ![p].data = Stamped(@, tSaved)]
    /\ files' = [files EXCEPT ![local[p].id] = Empty]
    /\ ppc' = [ppc EXCEPT ![p] = "opened"]
    /\ ret' = NoRet
    /\ UNCHANGED clock
    /\ UNCHANGED <<llmVars, appVars>>

\* save_conversation: json.dump and the end of the with block, which writes
\* the buffered document and closes the file; the call returns.
SaveClose(p) ==
    /\ ppc[p] = "opened"
    /\ clock < MaxClock
    /\ files' = [files EXCEPT ![local[p].id] = Written(@, local[p].data)]
    /\ clock' = AfterWrite(clock)
    /\ ret' = Ret(local[p].op, local[p].id, TRUE, local[p].data, <<>>, None)
    /\ ppc' = [ppc EXCEPT ![p] = "idle"]
    /\ local' = [local EXCEPT ![p] = NoLocal]
    /\ UNCHANGED <<llmVars, appVars>>

\* The caller is stopped inside the with block: its buffer is dropped (the
\* process is killed), or the part written so far is flushed on the way out
\* (an exception passes through the with block).
Interrupt(p, flushed) ==
    /\ ppc[p] = "opened"
    /\ files' = IF flushed
                THEN [files EXCEPT ![local[p].id] = Written(@, Partial)]
                ELSE files
    /\ ret' = Ret(local[p].op, local[p].id, FALSE, PyNone, <<>>, "Interrupted")
    /\ ppc' = [ppc EXCEPT ![p] = "idle"]
    /\ local' = [local EXCEPT ![p] = NoLocal]
    /\ UNCHANGED clock
    /\ UNCHANGED <<llmVars, appVars>>

\* ---- save_conversation when the file system fails ----

\* Where the OSError is raised: by open(file_path, 'w') before the file is
\* touched, by the first write after open cut the file to zero bytes, or by
\* a later write after part of the document reached the file.
IOFailures == {"open", "write", "flush"}

\* The file the failed save leaves.
FailedFile(cur, at) ==
    CASE at = "open" -> cur
      [] at = "write" -> Empty
      [] OTHER -> Written(Empty, Partial)

\* save_conversation has no except clause, and neither have its callers:
\* the OSError leaves create_conversation or add_message.
SaveFailedSilently(op, id, data) == Ret(op, id, TRUE, data, <<>>, None)

SaveFailed(op, id, data) == Ret(op, id, FALSE, PyNone, <<>>, "OSError")

\* create_conversation(title), its save failing
CreateFails(title, tCreated, at) ==
    LET id == Second(clock)
        data == Stamped(NewConversation(id, title, tCreated, tCreated), tCreated)
    IN  /\ \A p \in Procs : ppc[p] = "idle"
        /\ tCreated \in Later(clock)
        /\ tCreated <= MaxClock
        /\ at \in IOFailures
        /\ files' = [files EXCEPT ![id] = FailedFile(@, at)]
        /\ clock' = tCreated
        /\ ret' = SaveFailed("create", id, data)
        /\ UNCHANGED <<ppc, local>>
        /\ UNCHANGED <<llmVars, appVars>>

\* add_message(conversation_id, role, content, metadata), its save failing
AddMessageFails(id, role, content, metadata, at) ==
    LET conv == LoadOf(files[id])
        data == Stamped(Appended(conv,
                    NewMessage(role, content, metadata, clock)), clock)
    IN  /\ \A p \in Procs : ppc[p] = "idle"
        /\ ~Falsy(conv)
        /\ "messages" \in conv.has
        /\ Len(conv.messages) < MaxMsgs
        /\ at \in IOFailures
        /\ files' = [files EXCEPT ![id] = FailedFile(@, at)]
        /\ ret' = SaveFailed("add_message", id, data)
        /\ UNCHANGED <<clock, ppc, local>>
        /\ UNCHANGED <<llmVars, appVars>>

(***************************************************************************)
(* app.main: one browser session over the store and the client             *)
(***************************************************************************)

\* `not st.session_state.current_conversation_id`
NoConversation == -1

\* What sanitize_input can hand to main: the text and what send_message
\* reads of it.
Prompts == {"", " ", "hi", "long"}

Measure(s) ==
    CASE s = "" -> [len |-> 0, nonblank |-> 0]
      [] s = " " -> [len |-> 1, nonblank |-> 0]
      [] s = "long" -> [len |-> MAX_MESSAGE_LENGTH + 1, nonblank |-> 2]
      [] OTHER -> [len |-> 2, nonblank |-> 2]

\* f"I apologize, but I encountered an error: {error_msg}"
Apology(err) == "I apologize, but I encountered an error: " \o err

\* The metadata dict main builds for a success.
ResponseMetadata == "{response_time, model_used, tokens_used}"

UserTurn(s) == [role |-> "user", content |-> s]
AssistantTurn(text) == [role |-> "assistant", content |-> text]

AppInit ==
    session = [current |-> NoConversation, messages |-> <<>>,
               at |-> "idle", prompt |-> ""]

\* add_message as main calls it: the file afterwards, and what the call
\* returns or raises.
AddRaises(f) == ~Falsy(LoadOf(f)) /\ "messages" \notin LoadOf(f).has

Added(f, role, content, metadata, t) ==
    IF Falsy(LoadOf(f)) \/ AddRaises(f) THEN f
    ELSE Written(Empty, Stamped(Appended(LoadOf(f),
                    NewMessage(role, content, metadata, t)), t))

AddReturn(f, id, role, content, metadata, t) ==
    IF Falsy(LoadOf(f))
    THEN Ret("add_message", id, FALSE, PyNone, <<>>, None)
    ELSE IF AddRaises(f)
    THEN Ret("add_message", id, FALSE, PyNone, <<>>, "KeyError")
    ELSE Ret("add_message", id, TRUE, Added(f, role, content, metadata, t),
             <<>>, None)

\* The record has room for one more exchange (as the session's own list
\* must, in Submit).
RoomFor(f) == f.kind = "json" /\ "messages" \in f.has => Len(f.messages) + 2 <= MaxMsgs

\* create_conversation() and the session taking its id.
StartConversation(messages) ==
    LET id == Second(clock)
        data == Stamped(NewConversation(id, None, clock, clock), clock)
    IN  /\ AfterWrite(clock) <= MaxClock
        /\ files' = [files EXCEPT ![id] = Written(Empty, data)]
        /\ clock' = AfterWrite(clock)
        /\ ret' = Ret("create", id, TRUE, data, <<>>, None)
        /\ session' = [session EXCEPT !.current = id, !.messages = messages]
        /\ UNCHANGED <<ppc, local>>
        /\ UNCHANGED llmVars

\* A script run with no conversation in the session.
GetOrCreate ==
    /\ session.at = "idle"
    /\ session.current = NoConversation
    /\ StartConversation(session.messages)

\* The New Chat button.
NewChat ==
    /\ session.at = "idle"
    /\ session.current # NoConversation
    /\ StartConversation(<<>>)

\* The delete button of a listed conversation, in this session.
SidebarDelete(id) ==
    /\ session.at = "idle"
    /\ ~Summary(files[id]).skip
    /\ files' = [files EXCEPT ![id] = Absent]
    /\ ret' = Ret("delete", id, TRUE, PyNone, <<>>, None)
    /\ session' = IF session.current = id
                  THEN [session EXCEPT !.current = NoConversation,
                                       !.messages = <<>>]
                  ELSE session
    /\ UNCHANGED <<clock, ppc, local>>
    /\ UNCHANGED llmVars

\* A prompt arrives: main from st.chat_input to the user turn's add_message.
Submit(s) ==
    LET id == session.current
        f == files[id]
    IN  /\ session.at = "idle"
        /\ id # NoConversation
        /\ pc = "idle"
        /\ IF s = ""
           THEN UNCHANGED vars
           ELSE /\ RoomFor(f)
                /\ Len(session.messages) + 2 <= MaxMsgs
                /\ AfterWrite(clock) <= MaxClock
                /\ files' = [files EXCEPT ![id] = Added(f, "user", s, None, clock)]
                /\ clock' = IF files'[id] = f THEN clock ELSE AfterWrite(clock)
                /\ ret' = AddReturn(f, id, "user", s, None, clock)
                /\ session' = [session EXCEPT
                        !.messages = Append(@, UserTurn(s)),
                        !.at = IF AddRaises(f) THEN "idle" ELSE "exchange",
                        !.prompt = IF AddRaises(f) THEN "" ELSE s]
                /\ UNCHANGED <<ppc, local>>
                /\ UNCHANGED llmVars

\* llm_service.send_message(sanitized_prompt, model=selected_model, ...)
Send(model) ==
    /\ session.at = "exchange"
    /\ SendMessage(Measure(session.prompt), model)

\* main takes the result: the assistant turn, or the apology, is shown and
\* given to add_message; an exception inside the try block is logged.
TurnOf(r) == IF r.success THEN r.response ELSE Apology(r.error)

Handle ==
    LET id == session.current
        f == files[id]
        returnedNone == ~result.success /\ result.error = None
        text == TurnOf(result)
        metadata == IF result.success THEN ResponseMetadata ELSE None
    IN  /\ session.at = "exchange"
        /\ pc = "returned"
        /\ IF returnedNone
           THEN /\ UNCHANGED <<files, clock>>
                /\ ret' = NoRet
                /\ session' = [session EXCEPT !.at = "idle", !.prompt = ""]
           ELSE /\ AfterWrite(clock) <= MaxClock
                /\ files' = [files EXCEPT
                        ![id] = Added(f, "assistant", text, metadata, clock)]
                /\ clock' = IF files'[id] = f THEN clock ELSE AfterWrite(clock)
                /\ ret' = AddReturn(f, id, "assistant", text, metadata, clock)
                /\ session' = [session EXCEPT
                        !.messages = Append(@, AssistantTurn(text)),
                        !.at = "idle", !.prompt = ""]
        /\ pc' = "idle"
        /\ args' = [message |-> [len |-> 0, nonblank |-> 0], model |-> None]
        /\ attempt' = 0
        /\ outcomes' = <<>>
        /\ slept' = <<>>
        /\ elapsed' = 0
        /\ result' = NoResult
        /\ UNCHANGED <<ppc, local>>

(***************************************************************************)
(* Specifications                                                          *)
(***************************************************************************)
Init == LLMInit /\ StoreInit /\ AppInit

NextLLM ==
    \/ \E m \in Messages, model \in ModelArgs : SendMessage(m, model)
    \/ \E o \in RemoteOutcomes, d \in 0..MaxCallTime : Attempt(o, d)
    \/ Return

SpecLLM == Init /\ [][NextLLM]_vars

Times == 0..MaxClock

NextStore ==
    \/ \E title \in Titles, tc, ts \in Times : Create(title, tc, ts)
    \/ \E id \in FileIds, role \in Roles, content \in Contents,
          metadata \in Metadatas, tm, ts \in Times :
            AddMessage(id, role, content, metadata, tm, ts)
    \/ \E id \in FileIds : Load(id)
    \/ \E order \in GlobOrders(files) : GetAll(order)
    \/ \E id \in FileIds : Delete(id)
    \/ Tick

SpecStore == Init /\ [][NextStore]_vars

NextDisk ==
    \/ NextStore
    \/ \E f \in JunkOf(StrayId) : PutJunk(f)

SpecDisk == Init /\ [][NextDisk]_vars

NextConc ==
    \/ \E title \in Titles, tc, ts \in Times : Create(title, tc, ts)
    \/ \E p \in Procs, id \in Ids, role \in Roles, content \in Contents,
          metadata \in Metadatas, tm \in Times :
            AddBegin(p, id, role, content, metadata, tm)
    \/ \E p \in Procs, ts \in Times : SaveOpen(p, ts)
    \/ \E p \in Procs : SaveClose(p)
    \/ \E p \in Procs, flushed \in BOOLEAN : Interrupt(p, flushed)
    \/ \E id \in Ids : Load(id)
    \/ Tick

SpecConc == Init /\ [][NextConc]_vars

NextIO ==
    \/ NextStore
    \/ \E title \in Titles, tc \in Times, at \in IOFailures :
            CreateFails(title, tc, at)
    \/ \E id \in FileIds, role \in Roles, content \in Contents,
          metadata \in Metadatas, at \in IOFailures :
            AddMessageFails(id, role, content, metadata, at)

SpecIO == Init /\ [][NextIO]_vars

\* One session (GetOrCreate .. Handle) and the delete_conversation of another
\* session on the same storage directory.
NextApp ==
    \/ GetOrCreate
    \/ NewChat
    \/ \E id \in Ids : SidebarDelete(id)
    \/ \E s \in Prompts : Submit(s)
    \/ \E model \in KnownModels : Send(model)
    \/ \E o \in RemoteOutcomes, d \in 0..MaxCallTime : Attempt(o, d)
    \/ Handle
    \/ \E id \in Ids : Delete(id)

SpecApp == Init /\ [][NextApp]_vars

\* Every remote call returns or times out (timeout=Config.API_TIMEOUT) and
\* every time.sleep ends: an iteration of the retry loop that has started
\* finishes.
RemoteCall == \E o \in RemoteOutcomes, d \in 0..MaxCallTime : Attempt(o, d)

SpecLLMFair == Init /\ [][NextLLM]_vars /\ WF_vars(RemoteCall)

(***************************************************************************)
(* Claims about LLMService.send_message (checked under SpecLLM)            *)
(***************************************************************************)
Transient == {"APIConnectionError", "RateLimitError", "RuntimeError"}

IsTransient(o) == o.kind = "raise" /\ o.exc \in Transient

AllTransient ==
    /\ outcomes # <<>>
    /\ \A i \in 1..Len(outcomes) : IsTransient(outcomes[i])

IsFailure(r) == ~r.success /\ r.error # None /\ r.response = None

\* C1: an authentication failure raised by the remote call ends the call at
\* once: the call has returned, the failing remote call was its last one, and
\* the result is a failure carrying the invalid-API-key description (an
\* authentication failure on attempt 1 means exactly one remote call).
C1_AuthFailureIsTerminal ==
    \A i \in 1..Len(outcomes) :
        (outcomes[i].kind = "raise" /\ outcomes[i].exc = "AuthenticationError")
        => /\ pc = "returned"
           /\ Len(outcomes) = i
           /\ IsFailure(result)
           /\ result.error = ClauseError("AuthenticationError")

\* C2: with a budget of MAX_RETRIES attempts, a call whose attempts all fail
\* with a transient error is still attempting while fewer than MAX_RETRIES
\* remote calls were made, and a call that returned after a transient error
\* made exactly MAX_RETRIES remote calls and returned a failure result.
C2_TransientExhaustsBudget ==
    /\ Len(outcomes) <= MAX_RETRIES
    /\ (AllTransient /\ Len(outcomes) < MAX_RETRIES) => pc = "attempting"
    /\ (pc = "returned" /\ outcomes # <<>>
            /\ IsTransient(outcomes[Len(outcomes)]))
        => /\ Len(outcomes) = MAX_RETRIES
           /\ IsFailure(result)

C2_Witness ==
    /\ pc = "returned"
    /\ AllTransient
    /\ Len(outcomes) = MAX_RETRIES
    /\ \E i \in 1..Len(outcomes) : outcomes[i].exc = "RateLimitError"
    /\ IsFailure(result)

\* C3: every returned result has exactly one of response and error: a success
\* carries a non-empty response text and no error, a failure carries an error
\* description and no response.
C3_ExactlyOneOfResponseError ==
    pc = "returned" =>
        IF result.success
        THEN result.response \notin {None, ""} /\ result.error = None
        ELSE IsFailure(result)

\* C8: a call whose message is empty, whitespace-only or longer than
\* MAX_MESSAGE_LENGTH has returned a failure result with response_time 0
\* and has made no remote call.
C8_InvalidMessageFailsFast ==
    (pc # "idle" /\ (args.message.len = 0 \/ args.message.nonblank = 0
                        \/ args.message.len > MAX_MESSAGE_LENGTH))
    => /\ pc = "returned"
       /\ IsFailure(result)
       /\ result.response_time = 0
       /\ outcomes = <<>>

C8_Witness ==
    /\ pc = "returned"
    /\ args.message.len > MAX_MESSAGE_LENGTH
    /\ args.message.nonblank > 0
    /\ result = Failure("Message too long", 0)
    /\ outcomes = <<>>

(***************************************************************************)
(* Claims about ChatManager                                                *)
(***************************************************************************)
IsPrefix(a, b) == Len(a) <= Len(b) /\ SubSeq(b, 1, Len(a)) = a

IsRecord(f) == f.kind = "json" /\ f.has = Keys

\* C4: in every step of the store, for every id whose record is not deleted
\* by the step, the persisted message list only grows at its end: the record
\* is still there and its old messages are a prefix of its new ones.
C4_MessagesAppendOnly ==
    [][\A i \in FileIds :
         (IsRecord(files[i]) /\ files'[i].kind # "absent")
         => /\ IsRecord(files'[i])
            /\ IsPrefix(files[i].messages, files'[i].messages)]_vars

\* C5: every persisted record has updated_at >= created_at, and every step
\* that writes a record (create, add_message, each through save) sets its
\* updated_at to a time within that call; add_message leaves created_at as
\* it was, and create stores the created_at it read within the call.
C5_UpdatedAtRefreshed ==
    /\ [](\A i \in FileIds :
            files[i].kind = "json" => files[i].updated_at >= files[i].created_at)
    /\ [][\A i \in FileIds :
            (files'[i] # files[i] /\ files'[i].kind = "json")
            => /\ clock <= files'[i].updated_at
               /\ files'[i].updated_at < clock'
               /\ ret'.op = "add_message"
                    => files'[i].created_at = files[i].created_at
               /\ ret'.op = "create"
                    => /\ clock <= files'[i].created_at
                       /\ files'[i].created_at <= files'[i].updated_at]_vars

C5_Witness ==
    /\ ret.op = "add_message"
    /\ ret.ok
    /\ IsRecord(files[ret.id])
    /\ Len(files[ret.id].messages) = 2
    /\ files[ret.id].updated_at > files[ret.id].created_at

\* C6: add_message on an id that has no stored conversation (no file, or a
\* file that is not a JSON document) returns False without raising and
\* leaves every file of the directory as it was.
C6_AppendToMissingIsNoOp ==
    [][\A i \in FileIds :
         (ret'.op = "add_message" /\ ret'.id = i /\ files[i].kind # "json")
         => /\ ~ret'.ok
            /\ ret'.raised = None
            /\ files' = files]_vars

C6_Witness ==
    /\ ret.op = "add_message"
    /\ ~ret.ok
    /\ ret.raised = None
    /\ files[ret.id].kind = "absent"
    /\ \E j \in FileIds : IsRecord(files[j]) /\ files[j].messages # <<>>

\* A stored file get_all_conversations can summarise: a JSON object with the
\* four fields of a summary.
Listable(f) ==
    f.kind = "json" /\ {"id", "title", "created_at", "updated_at"} \subseteq f.has

\* C7: get_all_conversations returns one summary (id, title, created_at,
\* updated_at, message_count) for every stored record that parses and none
\* for the others, ordered by updated_at descending; called right after a
\* create_conversation, it lists the conversation just created before every
\* conversation created earlier.
C7_ListAllSortedByRecency ==
    [][ret'.op = "get_all" =>
        LET L == ret'.list IN
        /\ Len(L) = Cardinality({ i \in FileIds : Listable(files[i]) })
        /\ \A i \in FileIds :
             Listable(files[i]) =>
                \E k \in 1..Len(L) :
                    /\ L[k].id = files[i].id
                    /\ L[k].title = files[i].title
                    /\ L[k].created_at = files[i].created_at
                    /\ L[k].updated_at = files[i].updated_at
                    /\ L[k].message_count =
                         (IF "messages" \in files[i].has
                          THEN Len(files[i].messages) ELSE 0)
        /\ \A k \in 1..(Len(L) - 1) : L[k].updated_at >= L[k + 1].updated_at
        /\ ret.op = "create" =>
             \A a, b \in 1..Len(L) :
                (L[b].id = ret.id /\ L[a].id # ret.id
                    /\ IsRecord(files[L[a].id]))
                => b < a]_vars

C7_Witness ==
    /\ ret.op = "get_all"
    /\ Len(ret.list) = 2
    /\ \A k \in 1..2 : IsRecord(files[ret.list[k].id])
    /\ ret.list[1].updated_at > ret.list[2].updated_at
    /\ ret.list[1].created_at > ret.list[2].created_at
    /\ ret.list[2].message_count > 0
    /\ \E i \in FileIds : files[i].kind = "partial"

\* C9: no ChatManager call raises to its caller, whatever the file of the id
\* holds: nothing, bytes that do not parse, or a JSON document that is not a
\* conversation record.
C9_StoreNeverRaises == ret.raised = None

\* C10: in every step, what load_conversation would return for an id is
\* either what it returned before the step or the complete record a save
\* is writing to that id: never None in place of a stored record, never a
\* partial one.
C10_SaveIsAtomic ==
    [][\A i \in FileIds :
         LoadOf(files'[i]) \in
            {LoadOf(files[i])}
            \cup { local[p].data : p \in { q \in Procs : local[q].id = i } }
            \cup { local'[p].data : p \in { q \in Procs : local'[q].id = i } }
            \cup (IF ret'.op = "create" /\ ret'.id = i THEN {ret'.rec} ELSE {})
      ]_vars

\* C11 as stated: a save that fails with an I/O error is silent, no
\* exception reaches the caller of save, create or add_message.
C11_WriteFailureIsSilent == ret.raised # "OSError"

\* C11 as amended: a write failure is never silent.  A create or add_message
\* that returns normally has written the record it returns; one that meets an
\* I/O error raises it to the caller, changes no other file, and leaves the
\* file of its id as it was (open failed), empty or partial (a write failed).
C11_WriteFailurePropagates ==
    [][/\ (ret'.op \in {"create", "add_message"} /\ ret'.ok
                /\ ret'.raised = None)
            => files'[ret'.id] = ret'.rec
       /\ ret'.raised = "OSError"
            => /\ ~ret'.ok
               /\ \A i \in FileIds : i # ret'.id => files'[i] = files[i]
               /\ files'[ret'.id] \in {files[ret'.id], Empty, Partial}]_vars

C11_Witness ==
    /\ ret.op = "add_message"
    /\ ret.raised = "OSError"
    /\ files[ret.id] = Empty
    /\ \E j \in FileIds : j # ret.id /\ IsRecord(files[j])

\* C12: the backoff depends on the failure class.  Within a call, the sleep
\* after an attempt that met a rate-limit error is strictly longer than the
\* sleep after an attempt that met a generic API error, and a call whose
\* attempts were all rate-limited returns the rate-limit error description.
C12_BackoffByFailureClass ==
    /\ \A i, j \in 1..Len(slept) :
         (outcomes[i].exc = "RateLimitError"
            /\ outcomes[j].exc = "APIConnectionError")
         => slept[i] > slept[j]
    /\ (pc = "returned" /\ outcomes # <<>>
            /\ \A i \in 1..Len(outcomes) : outcomes[i].exc = "RateLimitError")
        => result.error = ClauseError("RateLimitError")

\* C13: a call moves idle -> returned (validation failed) or idle ->
\* attempting -> ... -> returned, and back to idle; it makes at most
\* MAX_RETRIES remote calls; a returned call carries a success or a failure
\* with an error description; no sleep follows its last remote call; a new
\* call starts with nothing of the previous one; and, every remote call
\* returning or timing out, a call that is attempting does return.
C13_CallStateMachine ==
    /\ [](/\ pc \in {"idle", "attempting", "returned"}
          /\ Len(outcomes) <= MAX_RETRIES
          /\ pc = "attempting" => Len(outcomes) < MAX_RETRIES
          /\ pc = "returned" =>
                /\ result.success \/ result.error # None
                /\ ~(result.success /\ result.error # None)
                /\ Len(slept) = (IF outcomes = <<>> THEN 0
                                 ELSE Len(outcomes) - 1))
    /\ [][/\ pc = "idle" /\ pc' # "idle" =>
                /\ attempt' = 0 /\ elapsed' = 0
                /\ outcomes' = <<>> /\ slept' = <<>>
                /\ pc' = "returned" => ~result'.success
          /\ pc = "attempting" /\ pc' # pc => pc' = "returned"
          /\ pc = "attempting" => Len(outcomes') = Len(outcomes) + 1
          /\ pc = "returned" => pc' = "idle"]_vars
    /\ (pc = "attempting" ~> pc = "returned")

C13_Witness ==
    /\ pc = "returned"
    /\ result.success
    /\ Len(outcomes) = MAX_RETRIES
    /\ slept = <<1, 1>>

\* C14: the step of main that takes a non-empty prompt adds the user turn to
\* the record of the session's conversation, and no remote call has been
\* made by then; the step that ends the exchange adds exactly one message to
\* that record, right after the user turn: an assistant turn holding the
\* response of a success, or the apology with the error of a failure.
C14_ExchangePersisted ==
    [][/\ session.at = "idle" /\ session'.at = "exchange" =>
            LET old == files[session.current]
                rec == files'[session.current]
                n == Len(rec.messages)
            IN  /\ IsRecord(rec)
                /\ n = Len(old.messages) + 1
                /\ IsPrefix(old.messages, rec.messages)
                /\ rec.messages[n].role = "user"
                /\ rec.messages[n].content = session'.prompt
                /\ pc' = "idle" /\ outcomes' = <<>>
       /\ session.at = "exchange" /\ session'.at = "idle" =>
            LET old == files[session.current]
                rec == files'[session.current]
                n == Len(rec.messages)
            IN  /\ IsRecord(rec)
                /\ n = Len(old.messages) + 1
                /\ IsPrefix(old.messages, rec.messages)
                /\ n >= 2
                /\ rec.messages[n - 1].role = "user"
                /\ rec.messages[n - 1].content = session.prompt
                /\ rec.messages[n].role = "assistant"
                /\ rec.messages[n].content = TurnOf(result)]_vars

\* C15: once no caller is inside add_message and the last step ended a save
\* of add_message, the file of that id holds exactly the record that save
\* wrote: a well-formed record whose last message is that writer's.
C15_LastWriterWins ==
    (/\ \A p \in Procs : ppc[p] = "idle"
     /\ ret.op = "add_message" /\ ret.ok /\ ret.raised = None)
        => /\ IsRecord(files[ret.id])
           /\ files[ret.id] = ret.rec
           /\ ret.rec.messages # <<>>
====
